---- MODULE Spec2Model ----
(***************************************************************************)
(* Model of task.py: the validated fields (Name, Phone, Birthday), Record, *)
(* AddressBook with get_upcoming_birthdays, and the command loop of main.  *)
(*                                                                         *)
(* A Python str is a sequence of characters; a character is a one-token    *)
(* TLA+ string.  "sup2" stands for U+00B2 SUPERSCRIPT TWO, a character for *)
(* which str.isdigit() is True although it is neither ASCII nor decimal.   *)
(* Python's None in an optional slot is the empty sequence <<>>, a present *)
(* value v is <<v>>.                                                       *)
(***************************************************************************)
EXTENDS Integers, Sequences, FiniteSets, TLC

VARIABLES
    book,   \* AddressBook.data: the entries [key, rec] in dict iteration order
    op,     \* the name of the last method called on the book or on a record
    ret,    \* what that call returned or raised: [err, val]
    pc,     \* main: "loop", "crashed" (uncaught exception) or "done"
    cmd,    \* main: the command parsed from the last line read
    out,    \* main: the last message printed
    saved   \* the pickled file: <<>> before save_data, then <<book>>

vars == <<book, op, ret, pc, cmd, out, saved>>

----------------------------------------------------------------------------
(* Characters and str methods                                              *)

AsciiDigits == <<"0", "1", "2", "3", "4", "5", "6", "7", "8", "9">>

UpperCase == <<"A", "B", "C", "D", "E", "H", "I", "L", "N", "O", "P", "S", "T", "X">>

LowerCase == <<"a", "b", "c", "d", "e", "h", "i", "l", "n", "o", "p", "s", "t", "x">>

Range(s) == {s[i] : i \in 1..Len(s)}

IsAsciiDigit(c) == c \in Range(AsciiDigits)

\* str.isdigit() for one character: the decimal digits and the characters
\* with Numeric_Type=Digit, such as the superscript digits.
IsDigitChar(c) == IsAsciiDigit(c) \/ c = "sup2"

\* str.isdigit(): every character is a digit and there is at least one.
isdigit(s) == Len(s) > 0 /\ \A i \in 1..Len(s) : IsDigitChar(s[i])

IsSpace(c) == c = " "

ToLower(c) ==
    IF \E i \in 1..Len(UpperCase) : UpperCase[i] = c
    THEN LowerCase[CHOOSE i \in 1..Len(UpperCase) : UpperCase[i] = c]
    ELSE c

\* str.lower()
RECURSIVE lower(_)
lower(s) == IF s = <<>> THEN <<>> ELSE <<ToLower(Head(s))>> \o lower(Tail(s))

RECURSIVE LStrip(_)
LStrip(s) == IF s # <<>> /\ IsSpace(Head(s)) THEN LStrip(Tail(s)) ELSE s

RECURSIVE RStrip(_)
RStrip(s) ==
    IF s # <<>> /\ IsSpace(s[Len(s)]) THEN RStrip(SubSeq(s, 1, Len(s) - 1)) ELSE s

\* str.strip()
strip(s) == RStrip(LStrip(s))

\* str.split(): the maximal runs of non-whitespace characters, in order.
RECURSIVE SplitWs(_, _, _)
SplitWs(s, cur, acc) ==
    IF s = <<>>
    THEN IF cur = <<>> THEN acc ELSE Append(acc, cur)
    ELSE IF IsSpace(Head(s))
         THEN SplitWs(Tail(s), <<>>, IF cur = <<>> THEN acc ELSE Append(acc, cur))
         ELSE SplitWs(Tail(s), Append(cur, Head(s)), acc)

split(s) == SplitWs(s, <<>>, <<>>)

\* The fields of s between occurrences of the literal sep (empty fields kept).
RECURSIVE SplitOn(_, _, _, _)
SplitOn(s, sep, cur, acc) ==
    IF s = <<>>
    THEN Append(acc, cur)
    ELSE IF Head(s) = sep
         THEN SplitOn(Tail(s), sep, <<>>, Append(acc, cur))
         ELSE SplitOn(Tail(s), sep, Append(cur, Head(s)), acc)

DigitVal(c) == (CHOOSE i \in 1..10 : AsciiDigits[i] = c) - 1

DigitChr(n) == AsciiDigits[n + 1]

----------------------------------------------------------------------------
(* datetime                                                                *)

IsLeap(y) == y % 4 = 0 /\ (y % 100 # 0 \/ y % 400 = 0)

DaysInMonth(y, m) ==
    IF m = 2 THEN (IF IsLeap(y) THEN 29 ELSE 28)
    ELSE IF m \in {4, 6, 9, 11} THEN 30 ELSE 31

RECURSIVE DaysBeforeMonth(_, _)
DaysBeforeMonth(y, m) ==
    IF m = 1 THEN 0 ELSE DaysBeforeMonth(y, m - 1) + DaysInMonth(y, m - 1)

DaysBeforeYear(y) ==
    (y - 1) * 365 + ((y - 1) \div 4) - ((y - 1) \div 100) + ((y - 1) \div 400)

\* date(y, m, d): the constructor's range check.
IsValidDate(y, m, d) ==
    /\ y \in 1..9999
    /\ m \in 1..12
    /\ d >= 1 /\ d <= DaysInMonth(y, m)

MkDate(y, m, d) == [year |-> y, month |-> m, day |-> d]

\* date.toordinal()
ToOrdinal(dt) ==
    DaysBeforeYear(dt.year) + DaysBeforeMonth(dt.year, dt.month) + dt.day

\* date.isoweekday(): Monday is 1, Sunday is 7.
isoweekday(dt) == IF ToOrdinal(dt) % 7 = 0 THEN 7 ELSE ToOrdinal(dt) % 7

\* The directive %d of strptime: 3[0-1]|[1-2]\d|0[1-9]|[1-9]| [1-9]
MatchDay(t) ==
    \/ /\ Len(t) = 2
       /\ \/ t[1] = "3" /\ t[2] \in {"0", "1"}
          \/ t[1] \in {"1", "2"} /\ IsAsciiDigit(t[2])
          \/ t[1] \in {"0", " "} /\ IsAsciiDigit(t[2]) /\ t[2] # "0"
    \/ Len(t) = 1 /\ IsAsciiDigit(t[1]) /\ t[1] # "0"

\* The directive %m of strptime: 1[0-2]|0[1-9]|[1-9]
MatchMonth(t) ==
    \/ /\ Len(t) = 2
       /\ \/ t[1] = "1" /\ t[2] \in {"0", "1", "2"}
          \/ t[1] = "0" /\ IsAsciiDigit(t[2]) /\ t[2] # "0"
    \/ Len(t) = 1 /\ IsAsciiDigit(t[1]) /\ t[1] # "0"

\* The directive %Y of strptime: \d\d\d\d
MatchYear(t) == Len(t) = 4 /\ \A i \in 1..4 : IsAsciiDigit(t[i])

\* int() of a matched group (a leading blank is skipped).
RECURSIVE ToInt(_, _)
ToInt(t, acc) ==
    IF t = <<>> THEN acc
    ELSE IF IsSpace(Head(t)) THEN ToInt(Tail(t), acc)
    ELSE ToInt(Tail(t), acc * 10 + DigitVal(Head(t)))

\* datetime.strptime(value, "%d.%m.%Y").date(): <<date>>, or <<>> when it
\* raises ValueError (no match, unconverted data, or an impossible date).
strptime(value) ==
    LET f == SplitOn(value, ".", <<>>, <<>>) IN
    IF Len(f) = 3 /\ MatchDay(f[1]) /\ MatchMonth(f[2]) /\ MatchYear(f[3])
    THEN LET d == ToInt(f[1], 0)
             m == ToInt(f[2], 0)
             y == ToInt(f[3], 0)
         IN  IF IsValidDate(y, m, d) THEN <<MkDate(y, m, d)>> ELSE <<>>
    ELSE <<>>

\* date.replace(year=y): <<date>>, or <<>> when it raises ValueError.
ReplaceYear(dt, y) ==
    IF IsValidDate(y, dt.month, dt.day) THEN <<MkDate(y, dt.month, dt.day)>> ELSE <<>>

Pad2(n) == <<DigitChr(n \div 10), DigitChr(n % 10)>>

Pad4(n) ==
    <<DigitChr(n \div 1000), DigitChr((n \div 100) % 10),
      DigitChr((n \div 10) % 10), DigitChr(n % 10)>>

\* date.strftime('%d.%m.%Y')
strftime(dt) == Pad2(dt.day) \o <<".">> \o Pad2(dt.month) \o <<".">> \o Pad4(dt.year)

----------------------------------------------------------------------------
(* Results of calls: err is "" on a normal return and the exception's      *)
(* class on a raise; val is the returned value (a sequence).               *)

Return(v) == [err |-> "", val |-> v]

Raise(e) == [err |-> e, val |-> <<>>]

----------------------------------------------------------------------------
(* Field classes: the constructor returns the stored value or raises.      *)

\* Name.__init__
Name(value) == IF value = <<>> THEN Raise("ValueError") ELSE Return(value)

\* Phone.__init__
Phone(value) ==
    IF ~isdigit(value) \/ Len(value) # 10 THEN Raise("ValueError") ELSE Return(value)

\* Birthday.__init__
Birthday(value) ==
    IF strptime(value) = <<>> THEN Raise("ValueError") ELSE Return(value)

----------------------------------------------------------------------------
(* Record: a method maps the record to [err, rec, val], rec being the      *)
(* record after the call.                                                  *)

Done(r, v) == [err |-> "", rec |-> r, val |-> v]

Fail(r, e) == [err |-> e, rec |-> r, val |-> <<>>]

\* Record.__init__: <<record>> or a raise.
Record(name) ==
    LET n == Name(name) IN
    IF n.err # "" THEN Raise(n.err)
    ELSE Return(<<[name |-> n.val, phones |-> <<>>, birthday |-> <<>>]>>)

\* Record.find_phone: the index of the first phone equal to phone, 0 if none.
FirstIndex(phones, phone) ==
    IF \E i \in 1..Len(phones) : phones[i] = phone
    THEN CHOOSE i \in 1..Len(phones) :
            phones[i] = phone /\ \A j \in 1..(i - 1) : phones[j] # phone
    ELSE 0

find_phone(rec, phone) ==
    LET i == FirstIndex(rec.phones, phone) IN
    Done(rec, IF i = 0 THEN <<>> ELSE <<rec.phones[i]>>)

\* Variant: the slot is assigned before the value is validated.
add_birthday_assign_first(rec, b_day) ==
    LET b == Birthday(b_day) IN
    IF b.err # "" THEN Fail([rec EXCEPT !.birthday = <<b_day>>], b.err)
    ELSE Done([rec EXCEPT !.birthday = <<b.val>>], <<>>)

add_birthday(rec, b_day) ==
    LET b == Birthday(b_day) IN
    IF b.err # "" THEN Fail(rec, b.err)
    ELSE Done([rec EXCEPT !.birthday = <<b.val>>], <<>>)

add_phone(rec, phone) ==
    LET p == Phone(phone) IN
    IF p.err # "" THEN Fail(rec, p.err)
    ELSE Done([rec EXCEPT !.phones = Append(@, p.val)], <<>>)

RECURSIVE Without(_, _)
Without(phones, phone) ==
    IF phones = <<>> THEN <<>>
    ELSE IF Head(phones) # phone
         THEN <<Head(phones)>> \o Without(Tail(phones), phone)
         ELSE Without(Tail(phones), phone)

\* Variant: only the first matching phone is removed.
remove_phone_first(rec, phone) ==
    LET i == FirstIndex(rec.phones, phone) IN
    IF i = 0 THEN Done(rec, <<>>)
    ELSE Done([rec EXCEPT !.phones = SubSeq(@, 1, i - 1) \o SubSeq(@, i + 1, Len(@))], <<>>)

remove_phone(rec, phone) ==
    Done([rec EXCEPT !.phones = Without(@, phone)], <<>>)

edit_phone(rec, old_phone, new_phone) ==
    LET i == FirstIndex(rec.phones, old_phone) IN
    IF i # 0
    THEN IF ~isdigit(new_phone) \/ Len(new_phone) # 10
         THEN Fail(rec, "ValueError")
         ELSE Done([rec EXCEPT !.phones[i] = new_phone], <<>>)
    ELSE Fail(rec, "ValueError")

----------------------------------------------------------------------------
(* AddressBook                                                             *)

RECURSIVE Keys(_)
Keys(b) == IF b = <<>> THEN <<>> ELSE <<Head(b).key>> \o Keys(Tail(b))

HasKey(b, name) == \E i \in 1..Len(b) : b[i].key = name

IndexOf(b, name) == CHOOSE i \in 1..Len(b) : b[i].key = name

\* Variant: a key that is present is removed and inserted again at the end.
add_record_reinsert(b, record) ==
    LET k == record.name
        rest == SelectSeq(b, LAMBDA e : e.key # k)
    IN  Append(rest, [key |-> k, rec |-> record])

\* Variant: the phones of the record already stored under the name are kept.
add_record_merge(b, record) ==
    LET k == record.name IN
    IF HasKey(b, k)
    THEN [b EXCEPT ![IndexOf(b, k)] =
            [key |-> k,
             rec |-> [record EXCEPT !.phones = b[IndexOf(b, k)].rec.phones \o @]]]
    ELSE Append(b, [key |-> k, rec |-> record])

\* AddressBook.add_record: dict item assignment keeps the position of a key
\* that is present and appends a new key.
add_record(b, record) ==
    LET k == record.name IN
    IF HasKey(b, k)
    THEN [b EXCEPT ![IndexOf(b, k)] = [key |-> k, rec |-> record]]
    ELSE Append(b, [key |-> k, rec |-> record])

\* AddressBook.find: <<record>> or <<>> (None).
find(b, name) == IF HasKey(b, name) THEN <<b[IndexOf(b, name)].rec>> ELSE <<>>

\* del self.data[name]
DelKey(b, name) ==
    LET i == IndexOf(b, name) IN SubSeq(b, 1, i - 1) \o SubSeq(b, i + 1, Len(b))

\* AddressBook.delete: [err, book]
delete(b, name) ==
    IF HasKey(b, name)
    THEN [err |-> "", book |-> DelKey(b, name)]
    ELSE [err |-> "ValueError", book |-> b]

\* The loop of get_upcoming_birthdays over self.data.values(), from entry i
\* with the list built so far; a raise abandons the list.
RECURSIVE UpcomingFrom(_, _, _, _)
UpcomingFrom(b, today, i, birthdays) ==
    IF i > Len(b) THEN Return(birthdays)
    ELSE LET user == b[i].rec IN
         IF user.birthday # <<>>
         THEN LET parsed == strptime(user.birthday[1]) IN
              IF parsed = <<>> THEN Raise("ValueError")
              ELSE LET replaced == ReplaceYear(parsed[1], today.year) IN
                   IF replaced = <<>> THEN Raise("ValueError")
                   ELSE LET birth_date == replaced[1]
                            difference_date == ToOrdinal(birth_date) - ToOrdinal(today)
                            entry == [name |-> user.name,
                                      birthday |-> strftime(birth_date)]
                        IN  IF 0 <= difference_date /\ difference_date <= 7
                            THEN IF isoweekday(birth_date) < 6
                                 THEN UpcomingFrom(b, today, i + 1, Append(birthdays, entry))
                                 ELSE UpcomingFrom(b, today, i + 1, Append(birthdays, entry))
                            ELSE UpcomingFrom(b, today, i + 1, birthdays)
         ELSE UpcomingFrom(b, today, i + 1, birthdays)

\* AddressBook.get_upcoming_birthdays, today being datetime.today().date()
get_upcoming_birthdays(b, today) == UpcomingFrom(b, today, 1, <<>>)

----------------------------------------------------------------------------
(* Inputs                                                                  *)

\* The most phones the directory holds, all records together
MaxPhones == 2

Ann == <<"A", "n", "n">>

Bob == <<"B", "o", "b">>

NameInputs == {Ann, Bob, <<>>}

Rep(c) == <<c, c, c, c, c, c, c, c, c, c>>

P1 == Rep("1")

PSup == Rep("sup2")

PShort == <<"1", "2", "3">>

PAlpha == <<"1", "2", "3", "4", "5", "a", "b", "c", "d", "e">>

\* Arguments of add_phone and the new_phone of edit_phone
PhoneInputs == {P1, PSup, PShort, PAlpha}

\* Arguments looked up in a record: find_phone, remove_phone, old_phone
LookupInputs == {P1, PSup}

BdNewYear == <<"0", "1", ".", "0", "1", ".", "1", "9", "9", "0">>

BdMarch1 == <<"0", "1", ".", "0", "3", ".", "1", "9", "9", "0">>

BdLeapDay == <<"2", "9", ".", "0", "2", ".", "2", "0", "0", "0">>

BdApril31 == <<"3", "1", ".", "0", "4", ".", "2", "0", "2", "0">>

BdYearFirst == <<"2", "0", "0", "0", ".", "0", "2", ".", "2", "9">>

BirthdayInputs == {BdNewYear, BdMarch1, BdLeapDay, BdApril31, BdYearFirst}

\* Values of datetime.today().date()
Todays ==
    {MkDate(2024, 12, 28), MkDate(2024, 1, 1), MkDate(2024, 2, 21),
     MkDate(2024, 2, 22), MkDate(2024, 2, 25), MkDate(2024, 2, 29),
     MkDate(2024, 3, 1), MkDate(2023, 2, 25)}

\* Records a caller can hold before add_record: Record(name), then at most
\* one add_phone and one add_birthday, all of which returned normally.
RecordInputs ==
    LET fresh == {Record(n).val[1] : n \in {m \in NameInputs : Record(m).err = ""}}
        phoned == fresh \cup
                  {add_phone(r, P1).rec : r \in fresh}
    IN  phoned \cup
        {add_birthday(r, d).rec : r \in phoned,
                                  d \in {e \in BirthdayInputs : Birthday(e).err = ""}}

----------------------------------------------------------------------------
(* The library driven method by method                                     *)

\* A method of the record found under name mutates that object in place.
SetRec(b, name, rec) == [b EXCEPT ![IndexOf(b, name)].rec = rec]

RECURSIVE TotalPhones(_)
TotalPhones(b) ==
    IF b = <<>> THEN 0 ELSE Len(Head(b).rec.phones) + TotalPhones(Tail(b))

Init ==
    /\ book = <<>>
    /\ op = ""
    /\ ret = Return(<<>>)
    /\ pc = "loop"
    /\ cmd = <<>>
    /\ out = ""
    /\ saved = <<>>

NewRecord(n) ==
    /\ op' = "Record"
    /\ ret' = Record(n)
    /\ UNCHANGED <<book, pc, cmd, out, saved>>

AddRecord(r) ==
    /\ TotalPhones(add_record(book, r)) <= MaxPhones
    /\ op' = "add_record"
    /\ book' = add_record(book, r)
    /\ ret' = Return(<<>>)
    /\ UNCHANGED <<pc, cmd, out, saved>>

Find(n) ==
    /\ op' = "find"
    /\ ret' = Return(find(book, n))
    /\ UNCHANGED <<book, pc, cmd, out, saved>>

Delete(n) ==
    \E r \in {delete(book, n)} :
        /\ op' = "delete"
        /\ book' = r.book
        /\ ret' = [err |-> r.err, val |-> <<>>]
        /\ UNCHANGED <<pc, cmd, out, saved>>

GetUpcomingBirthdays(today) ==
    /\ op' = "get_upcoming_birthdays"
    /\ ret' = get_upcoming_birthdays(book, today)
    /\ UNCHANGED <<book, pc, cmd, out, saved>>

\* Calls m on the record found under n, m being the [err, rec, val] of the call.
OnRecord(n, name, m) ==
    \E r \in {m} :
        /\ op' = name
        /\ book' = SetRec(book, n, r.rec)
        /\ ret' = [err |-> r.err, val |-> r.val]
        /\ UNCHANGED <<pc, cmd, out, saved>>

AddPhone(n, p) ==
    /\ HasKey(book, n)
    /\ TotalPhones(book) < MaxPhones \/ Phone(p).err # ""
    /\ OnRecord(n, "add_phone", add_phone(find(book, n)[1], p))

RemovePhone(n, p) ==
    /\ HasKey(book, n)
    /\ OnRecord(n, "remove_phone", remove_phone(find(book, n)[1], p))

EditPhone(n, old, new) ==
    /\ HasKey(book, n)
    /\ OnRecord(n, "edit_phone", edit_phone(find(book, n)[1], old, new))

FindPhone(n, p) ==
    /\ HasKey(book, n)
    /\ OnRecord(n, "find_phone", find_phone(find(book, n)[1], p))

AddBirthday(n, d) ==
    /\ HasKey(book, n)
    /\ OnRecord(n, "add_birthday", add_birthday(find(book, n)[1], d))

Next ==
    \/ \E n \in NameInputs : NewRecord(n)
    \/ \E r \in RecordInputs : AddRecord(r)
    \/ \E n \in NameInputs : Find(n)
    \/ \E n \in NameInputs : Delete(n)
    \/ \E today \in Todays : GetUpcomingBirthdays(today)
    \/ \E n \in NameInputs, p \in PhoneInputs : AddPhone(n, p)
    \/ \E n \in NameInputs, p \in LookupInputs : RemovePhone(n, p)
    \/ \E n \in NameInputs, old \in LookupInputs, new \in PhoneInputs : EditPhone(n, old, new)
    \/ \E n \in NameInputs, p \in LookupInputs : FindPhone(n, p)
    \/ \E n \in NameInputs, d \in BirthdayInputs : AddBirthday(n, d)

Spec == Init /\ [][Next]_vars

----------------------------------------------------------------------------
(* The command handlers: each maps (args, book) to [err, book, out], book  *)
(* being the directory as the call leaves it and out the returned message. *)

Says(b, msg) == [err |-> "", book |-> b, out |-> msg]

Throws(b, e) == [err |-> e, book |-> b, out |-> ""]

HelpText == "Error! if you want to: ..."

\* input_error: the wrapper turns the four caught classes into a message
\* and lets any other exception through.
input_error(r) ==
    IF r.err = "ValueError" THEN Says(r.book, HelpText)
    ELSE IF r.err = "AttributeError" THEN Says(r.book, "Atribute error")
    ELSE IF r.err = "KeyError" THEN Says(r.book, "Key error")
    ELSE IF r.err = "IndexError" THEN Says(r.book, "Index error")
    ELSE r

add_contact(args, b) ==
    input_error(
        IF Len(args) # 2 THEN Throws(b, "ValueError")
        ELSE LET name == args[1]
                 phone == args[2]
                 absent == find(b, name) = <<>>
                 made == Record(name)
             IN  IF absent /\ made.err # "" THEN Throws(b, made.err)
                 ELSE LET b1 == IF absent THEN add_record(b, made.val[1]) ELSE b
                          message == IF absent THEN "Contact added." ELSE "Contact updated."
                      IN  IF phone # <<>>
                          THEN LET m == add_phone(find(b1, name)[1], phone) IN
                               IF m.err # "" THEN Throws(SetRec(b1, name, m.rec), m.err)
                               ELSE Says(SetRec(b1, name, m.rec), message)
                          ELSE Says(b1, message))

change_phone(args, b) ==
    input_error(
        IF Len(args) # 3 THEN Throws(b, "ValueError")
        ELSE LET name == args[1] IN
             IF find(b, name) # <<>>
             THEN LET m == edit_phone(find(b, name)[1], args[2], args[3]) IN
                  IF m.err # "" THEN Throws(SetRec(b, name, m.rec), m.err)
                  ELSE Says(SetRec(b, name, m.rec), "Phone number changed.")
             ELSE Says(b, "Contact not found."))

show_all(b) ==
    IF b = <<>> THEN Says(b, "No contacts available") ELSE Says(b, "name: record ...")

get_phone(args, b) ==
    input_error(
        IF Len(args) # 1 THEN Throws(b, "ValueError")
        ELSE IF find(b, args[1]) # <<>>
             THEN Says(b, "Phone number for name: ...")
             ELSE Says(b, "Contact not found."))

add_birthday_cmd(args, b) ==
    input_error(
        IF Len(args) # 2 THEN Throws(b, "ValueError")
        ELSE LET name == args[1] IN
             IF find(b, name) # <<>>
             THEN LET m == add_birthday(find(b, name)[1], args[2]) IN
                  IF m.err # "" THEN Throws(SetRec(b, name, m.rec), m.err)
                  ELSE Says(SetRec(b, name, m.rec), "Birthday added.")
             ELSE Says(b, "Contact not found."))

show_birthday(args, b) ==
    input_error(
        IF Len(args) # 1 THEN Throws(b, "ValueError")
        ELSE IF find(b, args[1]) # <<>>
             THEN IF find(b, args[1])[1].birthday # <<>>
                  THEN Says(b, "Birthday for name: ...")
                  ELSE Says(b, "No birthday found.")
             ELSE Says(b, "No contact found."))

\* birthdays is not wrapped by input_error.
birthdays(b, today) ==
    LET upcoming_birthdays == get_upcoming_birthdays(b, today) IN
    IF upcoming_birthdays.err # "" THEN Throws(b, upcoming_birthdays.err)
    ELSE IF upcoming_birthdays.val = <<>> THEN Says(b, "No upcoming birthdays")
    ELSE Says(b, "Upcoming birthday next week for ...")

\* parse_input: <<cmd, args>> or the ValueError of unpacking an empty list.
parse_input(user_input) ==
    LET parts == split(user_input) IN
    IF parts = <<>> THEN Raise("ValueError")
    ELSE Return(<<lower(strip(Head(parts))), Tail(parts)>>)

----------------------------------------------------------------------------
(* main: the lines typed and the command loop                              *)

CmdAdd == <<"a", "d", "d">>

CmdChange == <<"c", "h", "a", "n", "g", "e">>

CmdPhone == <<"p", "h", "o", "n", "e">>

CmdAll == <<"a", "l", "l">>

CmdAddBirthday == <<"a", "d", "d", "-", "b", "i", "r", "t", "h", "d", "a", "y">>

CmdShowBirthday == <<"s", "h", "o", "w", "-", "b", "i", "r", "t", "h", "d", "a", "y">>

CmdBirthdays == <<"b", "i", "r", "t", "h", "d", "a", "y", "s">>

CmdHello == <<"h", "e", "l", "l", "o">>

CmdClose == <<"c", "l", "o", "s", "e">>

CmdExit == <<"e", "x", "i", "t">>

RECURSIVE JoinWs(_)
JoinWs(tokens) ==
    IF tokens = <<>> THEN <<>>
    ELSE IF Len(tokens) = 1 THEN Head(tokens)
    ELSE Head(tokens) \o <<" ">> \o JoinWs(Tail(tokens))

Contacts == {Ann, Bob}

\* Lines typed at the prompt
Lines ==
    {JoinWs(<<CmdAdd, n, p>>) : n \in Contacts, p \in {P1, PSup, PShort}}
    \cup {JoinWs(<<CmdChange, Ann, o, p>>) : o \in LookupInputs, p \in {P1, PSup, PAlpha}}
    \cup {JoinWs(<<CmdAddBirthday, n, d>>) : n \in Contacts, d \in {BdLeapDay, BdApril31}}
    \cup {JoinWs(<<c, Ann>>) : c \in {CmdAdd, CmdChange, CmdPhone, CmdShowBirthday,
                                       CmdAddBirthday, CmdAll}}
    \cup {JoinWs(<<c>>) : c \in {CmdAdd, CmdPhone, CmdAll, CmdBirthdays, CmdHello,
                                  CmdClose, CmdExit, Bob}}
    \cup {<<>>, <<" ", " ">>,
          <<"E", "X", "I", "T">>,
          <<" ", "A", "l", "l", " ", " ", "x", " ">>,
          JoinWs(<<CmdAdd, Ann, P1, P1>>)}

IsExit(command) == command \in {CmdClose, CmdExit}

\* The branch of the if/elif chain of main taken for command: [err, book, out].
Dispatch(command, args, b, today) ==
    IF command = CmdHello THEN Says(b, "How can I help you?")
    ELSE IF command = CmdAdd THEN add_contact(args, b)
    ELSE IF command = CmdChange THEN change_phone(args, b)
    ELSE IF command = CmdPhone THEN get_phone(args, b)
    ELSE IF command = CmdAll THEN show_all(b)
    ELSE IF command = CmdAddBirthday THEN add_birthday_cmd(args, b)
    ELSE IF command = CmdShowBirthday THEN show_birthday(args, b)
    ELSE IF command = CmdBirthdays THEN birthdays(b, today)
    ELSE Says(b, "Invalid command.")

\* datetime.today() is called by the birthdays command alone; no other
\* branch reads the clock.
ClockRead(command) == IF command = CmdBirthdays THEN Todays ELSE {MkDate(2024, 1, 1)}

\* One pass of the while loop of main on the line user_input; an exception
\* that nothing catches ends the process before save_data.
ReadLine(user_input) ==
    /\ pc = "loop"
    /\ \E parsed \in {parse_input(user_input)} :
       IF parsed.err # ""
       THEN /\ pc' = "crashed"
            /\ cmd' = <<>>
            /\ out' = "Traceback"
            /\ UNCHANGED <<book, saved>>
       ELSE LET command == parsed.val[1]
                args == parsed.val[2]
            IN  IF IsExit(command)
                THEN /\ pc' = "done"
                     /\ cmd' = command
                     /\ out' = "Good bye!"
                     /\ saved' = <<book>>
                     /\ UNCHANGED book
                ELSE \E today \in ClockRead(command) :
                       \E r \in {Dispatch(command, args, book, today)} :
                       /\ TotalPhones(r.book) <= MaxPhones
                       /\ cmd' = command
                       /\ book' = r.book
                       /\ pc' = IF r.err # "" THEN "crashed" ELSE "loop"
                       /\ out' = IF r.err # "" THEN "Traceback" ELSE r.out
                       /\ UNCHANGED saved
    /\ UNCHANGED <<op, ret>>

NextMain == \E user_input \in Lines : ReadLine(user_input)

SpecMain == Init /\ [][NextMain]_vars

----------------------------------------------------------------------------
(* Properties of Record and AddressBook, checked under Spec                *)

Records(b) == {b[i].rec : i \in 1..Len(b)}

\* The records stored under the names other than n are the same in b1 and b2.
SameElsewhere(b1, b2, n) ==
    \A m \in NameInputs \ {n} : find(b1, m) = find(b2, m)

C2_FailedCallLeavesState ==
    [][(/\ op' \in {"add_phone", "edit_phone", "add_birthday", "delete"}
        /\ ret'.err # "")
            => book' = book]_vars

\* add_birthday has raised on a record that holds a birthday and a phone.
C2_Witness ==
    /\ op = "add_birthday"
    /\ ret.err = "ValueError"
    /\ \E r \in Records(book) : r.birthday = <<BdLeapDay>> /\ r.phones = <<P1>>

\* i < j implies that name s[i] stands before name s[j] in the key order of b.
InKeyOrder(s, b) ==
    \A i, j \in 1..Len(s) :
        i < j => /\ HasKey(b, s[i].name)
                 /\ HasKey(b, s[j].name)
                 /\ IndexOf(b, s[i].name) < IndexOf(b, s[j].name)

\* C7: the entries of get_upcoming_birthdays follow the insertion order of
\* the keys: add_record of a present name keeps every key's position,
\* add_record of an absent name puts it last, delete removes the name and
\* keeps the others' order, no other call reorders, and the entries returned
\* stand in that order.
C7_EntriesInInsertionOrder ==
    /\ [][/\ op' = "add_record" => \A r \in RecordInputs :
                AddRecord(r) =>
                    Keys(book') = IF HasKey(book, r.name) THEN Keys(book)
                                  ELSE Append(Keys(book), r.name)
          /\ op' = "delete" => \A n \in NameInputs :
                Delete(n) => Keys(book') = SelectSeq(Keys(book), LAMBDA k : k # n)
          /\ op' \notin {"add_record", "delete"} => Keys(book') = Keys(book)]_vars
    /\ [](op = "get_upcoming_birthdays" => InKeyOrder(ret.val, book))

\* Two entries were returned, the later date first.
C7_Witness ==
    /\ op = "get_upcoming_birthdays"
    /\ Len(ret.val) = 2
    /\ ret.val[1].birthday = strftime(MkDate(2024, 3, 1))
    /\ ret.val[2].birthday = strftime(MkDate(2024, 2, 29))

\* C9: keys are unique and each equals the name of its record; add_record
\* makes find(name) the record given, whole, and delete makes it None; no
\* call changes what find returns for another name, and only add_record and
\* delete change which names are present.
C9_OneRecordPerName ==
    /\ [](/\ \A i, j \in 1..Len(book) : book[i].key = book[j].key => i = j
          /\ \A i \in 1..Len(book) : book[i].key = book[i].rec.name)
    /\ [][/\ op' = "add_record" => \A r \in RecordInputs :
                AddRecord(r) => /\ find(book', r.name) = <<r>>
                                /\ SameElsewhere(book, book', r.name)
          /\ op' = "delete" => \A n \in NameInputs :
                Delete(n) => /\ find(book', n) = <<>>
                             /\ SameElsewhere(book, book', n)
          /\ op' \notin {"add_record", "delete"} =>
                \A n \in NameInputs : (find(book', n) = <<>>) <=> (find(book, n) = <<>>)]_vars

\* add_record has replaced a record, so the name's phones are gone, while
\* the other name keeps its record.
C9_Witness ==
    /\ op = "add_record"
    /\ Len(book) = 2
    /\ book[1].rec = [name |-> Ann, phones |-> <<>>, birthday |-> <<BdMarch1>>]
    /\ book[2].rec.phones = <<P1, PSup>>

\* The date a stored birthday string denotes.
BirthDate(rec) == strptime(rec.birthday[1])[1]

\* The birthday's day and month exist as a date of today's year.
HasCandidate(rec, today) ==
    IsValidDate(today.year, BirthDate(rec).month, BirthDate(rec).day)

Candidate(rec, today) == MkDate(today.year, BirthDate(rec).month, BirthDate(rec).day)

\* The record has a birthday whose date in today's year is 0 to 7 days ahead.
IsDue(rec, today) ==
    /\ rec.birthday # <<>>
    /\ HasCandidate(rec, today)
    /\ ToOrdinal(Candidate(rec, today)) - ToOrdinal(today) \in 0..7

DueEntry(rec, today) ==
    [name |-> rec.name, birthday |-> strftime(Candidate(rec, today))]

\* C1: whatever the directory and today, get_upcoming_birthdays returns an
\* entry for a record exactly when the record is due, and the entry carries
\* the candidate date.
C1_EntryIffDue ==
    [][op' = "get_upcoming_birthdays" => \A today \in Todays :
        GetUpcomingBirthdays(today) =>
            /\ ret'.err = ""
            /\ Range(ret'.val) = {DueEntry(r, today) : r \in {x \in Records(book) : IsDue(x, today)}}
            /\ Len(ret'.val) = Cardinality({x \in Records(book) : IsDue(x, today)})]_vars

IsLeapDay(rec) ==
    rec.birthday # <<>> /\ BirthDate(rec).month = 2 /\ BirthDate(rec).day = 29

\* C5: with a 29 February birthday in the directory and today in a year that
\* is not a leap year, get_upcoming_birthdays returns a list, in which every
\* other record that is due has its entry.
C5_LeapDayHandled ==
    [][op' = "get_upcoming_birthdays" => \A today \in Todays :
        (/\ GetUpcomingBirthdays(today)
         /\ ~IsLeap(today.year)
         /\ \E r \in Records(book) : IsLeapDay(r))
            => /\ ret'.err = ""
               /\ \A r \in Records(book) :
                    IsDue(r, today) => DueEntry(r, today) \in Range(ret'.val)]_vars

\* A string of exactly 10 decimal digits
IsTenDecimalDigits(v) == Len(v) = 10 /\ \A i \in 1..10 : IsAsciiDigit(v[i])

\* C3: every stored field is validated: names are non-empty, phones are 10
\* decimal digits, a birthday is absent or parses as a calendar date.
C3_StoredFieldsValid ==
    \A r \in Records(book) :
        /\ r.name # <<>>
        /\ \A i \in 1..Len(r.phones) : IsTenDecimalDigits(r.phones[i])
        /\ r.birthday = <<>> \/ strptime(r.birthday[1]) # <<>>

\* C4: edit_phone raises when no phone equals old; otherwise a valid new
\* replaces the first phone equal to old at its position, every other
\* position keeps its value and find_phone(new) returns a phone; a malformed
\* new makes it raise.
C4_EditPhoneInPlace ==
    [][op' = "edit_phone" => \A n \in NameInputs, old \in LookupInputs, new \in PhoneInputs :
        EditPhone(n, old, new) =>
            LET before == find(book, n)[1]
                after == find(book', n)[1]
                i == FirstIndex(before.phones, old)
            IN  /\ i = 0 => ret'.err = "ValueError"
                /\ (i # 0 /\ IsTenDecimalDigits(new)) =>
                        /\ ret'.err = ""
                        /\ after.phones = [before.phones EXCEPT ![i] = new]
                        /\ find_phone(after, new).val # <<>>
                /\ (i # 0 /\ ~IsTenDecimalDigits(new)) => ret'.err = "ValueError"]_vars

----------------------------------------------------------------------------
(* Properties of the command loop, checked under SpecMain                  *)

LineIsExit(l) == split(l) # <<>> /\ IsExit(lower(strip(Head(split(l)))))

\* C6: every line other than exit/close gets a message and the loop reads
\* on; the loop ends only on exit/close, and the directory is then saved.
C6_NoFailureIsFatal ==
    [][\A l \in Lines :
        ReadLine(l) =>
            IF LineIsExit(l)
            THEN pc' = "done" /\ saved' = <<book>>
            ELSE pc' = "loop" /\ out' \notin {"", "Traceback"} /\ saved' = <<>>]_vars

\* C10: add with a phone that fails validation reports the error and leaves
\* the directory as it was, whether or not the name has a record.
C10_AddRejectedLeavesBook ==
    [][\A n \in Contacts, p \in PhoneInputs :
        (ReadLine(JoinWs(<<CmdAdd, n, p>>)) /\ Phone(p).err # "")
            => /\ out' = HelpText
               /\ book' = book
               /\ find(book, n) = <<>> => find(book', n) = <<>>]_vars

====
